---- MODULE Spec2Model ----
(***************************************************************************)
(* Transaction security analysis and signing gate of q-chain2              *)
(* (src/Quantum-PQC/quantum_api).                                          *)
(*                                                                         *)
(*   Spec         the POST /sign handler of main.py                        *)
(*   SpecRequest  one POST /sign observed with all its inputs              *)
(*   SpecLive     the handler step by step, with fairness                  *)
(*   SpecGuard    the two downgrade guards called side by side             *)
(*   SpecReplay   cryptanalysis.replay.detect_replay                       *)
(*   SpecAnalyze  cryptanalysis.analyzer.analyze_transaction               *)
(*   SpecVerify   one analysis over every zkp dict                         *)
(*   SpecFraud    cryptanalysis.fraud_mapper.map_to_fraud_alert            *)
(*   SpecRace     the guards called from threads of their own              *)
(*                                                                         *)
(* Scores that the code holds as floats are kept exact as integers:        *)
(* random.uniform draws and the timing score in thousandths, the entropy   *)
(* as the number of distinct hex symbols of the digest (sixteenths).       *)
(***************************************************************************)
EXTENDS Integers, Sequences, FiniteSets, TLC

\* ------------------------------------------------------------------ bounds
NumWallets == 2
Wallets == 1..NumWallets
\* senders of the direct guard calls
NumSenders == 4
Senders == 1..NumSenders
\* longest signature string of the replay model
MaxSigLen == 2
\* distinct (tx, signature) pairs submitted to the replay guard
MaxPairs == 2

\* ------------------------------------------------------------- main.py state
VARIABLES wallet_security_mode, pqc_wallets, request, response

\* sign_call is the latest POST /sign as SpecRequest observes it: the body,
\* what the AI service answered, the two random draws, what get_ai_risk
\* returned and which collaborators the handler invoked.
\* had_mode tells whether the wallet had an entry in wallet_security_mode
\* when the request arrived.
VARIABLES sign_call

\* ------------------------------------------------------ cryptanalysis state
\* PQC_HISTORY of downgrade.py and _seen of replay.py; guard_call, replay_call
\* hold the latest direct call of a guard with its verdict; used_pqc and
\* submitted are history: the senders that called with is_pqc = True, the
\* (tx, signature) pairs passed to detect_replay so far.
VARIABLES PQC_HISTORY, guard_call, used_pqc, _seen, replay_call, submitted

\* sha_symbols[tx] is the number of distinct hex symbols of
\* sha256(json.dumps(tx, sort_keys=True)).hexdigest(): a function of tx that
\* the model fixes in the initial state.  call is the latest
\* call of analyze_transaction or generate_analysis with all it computed.
VARIABLES sha_symbols, call

\* alert_call is the latest pair of calls of map_to_fraud_alert: the two
\* analysis dicts and what each call returned.
VARIABLES alert_call

\* pc is the state of the latest sign request that entered the handler (Idle
\* before the first) and inflight what the handler holds for it: the body, the
\* canonical message, the signature, the state of the AI call and its
\* outcome, the random draws and the analysis.
VARIABLES pc, inflight

\* threads[t] is the call thread t is making to detect_replay or to one of
\* the two detect_downgrade functions: its arguments, how far it got, the
\* value it read and, once done, what it returned.
VARIABLES threads

gate_vars == <<wallet_security_mode, pqc_wallets, request, response, sign_call>>
guard_vars == <<PQC_HISTORY, guard_call, used_pqc>>
replay_vars == <<_seen, replay_call, submitted>>
analyze_vars == <<sha_symbols, call, alert_call>>
live_vars == <<pc, inflight>>
race_vars == <<threads>>
vars == <<gate_vars, guard_vars, replay_vars, analyze_vars, live_vars,
          race_vars>>

PQC_ALGO == "ML-DSA-44"
ECDSA_ALGO == "ECDSA-SHA256"
AI_FALLBACK == 10
AMOUNT_LIMIT == 5000000
RISK_CAP == 95
HIGH_BREAK == 70
MEDIUM_BREAK == 40
TIMING_PENALTY_ABOVE == 60
ENTROPY_PENALTY_BELOW == 900
PENALTY == 10

\* Python dict helpers: a dict is a function whose DOMAIN is its key set.
DictSet(d, k, v) == [x \in (DOMAIN d) \cup {k} |-> IF x = k THEN v ELSE d[x]]
EmptyDict == [x \in {} |-> TRUE]

\* str.lower() on the algorithm names the model sends.
Algorithms == {"pqc", "PQC", "classical"}
Lower(s) == IF s = "PQC" THEN "pqc" ELSE s

\* Transaction(BaseModel): amount must be > 0, all four fields required.
\* fields is the key set of the transaction object in the request body; the
\* value of an absent key is a placeholder nothing reads.
Amounts == {0, 100, AMOUNT_LIMIT, AMOUNT_LIMIT + 1}
BOB == <<"b", "o", "b">>
TxFields == {"amount", "to", "nonce", "timestamp"}
CompleteTxs == [amount : Amounts, to : {BOB}, nonce : {1},
                timestamp : {"2024-01-01T00:00:00Z"}, fields : {TxFields}]
MissingAmountTx == [amount |-> 0, to |-> BOB, nonce |-> 1,
                    timestamp |-> "2024-01-01T00:00:00Z",
                    fields |-> TxFields \ {"amount"}]
GateTxs == CompleteTxs \cup {MissingAmountTx}

\* Variant: the amount constraint is ge=0.
TransactionValid_ge(tx) == tx.fields = TxFields /\ tx.amount >= 0

TransactionValid(tx) == tx.fields = TxFields /\ tx.amount > 0

\* canonical(tx): json.dumps with sort_keys and compact separators, kept as
\* the sequence of keys and values in sorted key order.
canonical(tx) == <<"amount", ToString(tx.amount), "nonce", ToString(tx.nonce),
                   "timestamp", tx.timestamp, "to", tx.to>>

\* Variant: the downgrade path stores the classical mode before returning.
detect_downgrade_overwrite(mode, wallet_id, is_pqc) ==
    LET previous_is_True == wallet_id \in DOMAIN mode /\ mode[wallet_id]
    IN  [ret |-> previous_is_True /\ ~is_pqc,
         mode |-> DictSet(mode, wallet_id, is_pqc)]

\* Variant: the verdict is returned and the mode is never stored.
detect_downgrade_stores_nothing(mode, wallet_id, is_pqc) ==
    LET previous_is_True == wallet_id \in DOMAIN mode /\ mode[wallet_id]
    IN  [ret |-> previous_is_True /\ ~is_pqc, mode |-> mode]

\* detect_downgrade of main.py: verdict and the dict it leaves behind.
\* Variant: any stored entry, also False, counts as PQC history.
detect_downgrade_any_previous(mode, wallet_id, is_pqc) ==
    LET previous_is_True == wallet_id \in DOMAIN mode
    IN  IF previous_is_True /\ ~is_pqc
        THEN [ret |-> TRUE, mode |-> mode]
        ELSE [ret |-> FALSE, mode |-> DictSet(mode, wallet_id, is_pqc)]

detect_downgrade(mode, wallet_id, is_pqc) ==
    LET previous_is_True == wallet_id \in DOMAIN mode /\ mode[wallet_id]
    IN  IF previous_is_True /\ ~is_pqc
        THEN [ret |-> TRUE, mode |-> mode]
        ELSE [ret |-> FALSE, mode |-> DictSet(mode, wallet_id, is_pqc)]

\* Outcomes of requests.post(AI_SERVICE_URL, ..., timeout=3): no answer, an
\* answer that is not 200, a 200 whose body is not JSON or has no risk_score,
\* and a 200 whose risk_score is an integer (ok), a float (float_score, kept
\* in hundredths: 0.85 and 72.9), null or a text that is not a number.
AiScores == {10, 21, 31, 40, 41, 51, 61, 70, 71, 100}
FloatScores == {85, 7290}
OracleOutcomes ==
    [kind : {"timeout", "connection_error", "non200", "bad_body", "no_field",
             "null_score", "text_score"},
     score : {0}]
    \cup [kind : {"ok"}, score : AiScores]
    \cup [kind : {"float_score"}, score : FloatScores]

\* int(x) of a non-negative float given in hundredths: truncation.
int_of_float(hundredths) == hundredths \div 100

\* Variant: the risk_score of an answer that is not 200 is used as well.
get_ai_risk_trusts_error_answer(oracle) ==
    IF oracle.kind \in {"ok", "non200"} THEN oracle.score
    ELSE IF oracle.kind = "float_score" THEN int_of_float(oracle.score)
    ELSE AI_FALLBACK

\* get_ai_risk: int(risk_score) of a 200 answer; 10 when the call raises,
\* the status is not 200, the body does not parse, the field is absent or
\* int() raises on it.
get_ai_risk(oracle) ==
    IF oracle.kind = "ok" THEN oracle.score
    ELSE IF oracle.kind = "float_score" THEN int_of_float(oracle.score)
    ELSE AI_FALLBACK

\* random.uniform(0.88, 0.99) and random.uniform(0.01, 0.08), thousandths.
EntropyDraws == {880, 899, 900, 990}
TimingDraws == {10, 60, 61, 80}
\* The draws on either side of the two penalty thresholds.
EdgeEntropyDraws == {ENTROPY_PENALTY_BELOW - 1, ENTROPY_PENALTY_BELOW}
EdgeTimingDraws == {TIMING_PENALTY_ABOVE, TIMING_PENALTY_ABOVE + 1}

Min(a, b) == IF a < b THEN a ELSE b

\* Variant: a score of exactly 70 already counts as high.
RiskOfScore_at_break(risk_score) ==
    IF risk_score >= HIGH_BREAK THEN "high"
    ELSE IF risk_score > MEDIUM_BREAK THEN "medium"
    ELSE "low"

RiskOfScore(risk_score) ==
    IF risk_score > HIGH_BREAK THEN "high"
    ELSE IF risk_score > MEDIUM_BREAK THEN "medium"
    ELSE "low"

\* Variant: each penalty adds 20.
generate_analysis_heavy_penalty(tx, oracle, entropy_score, timing_leak_score) ==
    LET ai_risk == get_ai_risk(oracle)
        s1 == IF timing_leak_score > TIMING_PENALTY_ABOVE
              THEN ai_risk + 2 * PENALTY ELSE ai_risk
        s2 == IF entropy_score < ENTROPY_PENALTY_BELOW
              THEN s1 + 2 * PENALTY ELSE s1
        s3 == IF tx.amount > AMOUNT_LIMIT THEN RISK_CAP ELSE s2
        risk_score == Min(s3, RISK_CAP)
        risk == RiskOfScore(risk_score)
    IN  [secure |-> risk # "high", risk |-> risk, risk_score |-> risk_score]

\* Variant: the amount does not override the score.
generate_analysis_no_amount_override(tx, oracle, entropy_score, timing_leak_score) ==
    LET ai_risk == get_ai_risk(oracle)
        s1 == IF timing_leak_score > TIMING_PENALTY_ABOVE
              THEN ai_risk + PENALTY ELSE ai_risk
        s2 == IF entropy_score < ENTROPY_PENALTY_BELOW
              THEN s1 + PENALTY ELSE s1
        risk_score == Min(s2, RISK_CAP)
        risk == RiskOfScore(risk_score)
    IN  [secure |-> risk # "high", risk |-> risk, risk_score |-> risk_score]

generate_analysis(tx, oracle, entropy_score, timing_leak_score) ==
    LET ai_risk == get_ai_risk(oracle)
        s1 == IF timing_leak_score > TIMING_PENALTY_ABOVE
              THEN ai_risk + PENALTY ELSE ai_risk
        s2 == IF entropy_score < ENTROPY_PENALTY_BELOW
              THEN s1 + PENALTY ELSE s1
        s3 == IF tx.amount > AMOUNT_LIMIT THEN RISK_CAP ELSE s2
        risk_score == Min(s3, RISK_CAP)
        risk == RiskOfScore(risk_score)
    IN  [secure |-> risk # "high", risk |-> risk, risk_score |-> risk_score]

NoSignature == [scheme |-> "none", signer |-> 0, message |-> <<>>]
\* No fraud alert: the dict returned at main.py:207-215 has no such key and
\* main.py never calls map_to_fraud_alert.
NoAlert == [raised |-> FALSE, fraud |-> FALSE, probability |-> 0,
            severity |-> "none", reason |-> <<>>]
NoAnalysis == [secure |-> TRUE, risk |-> "none", risk_score |-> 0]
NoRequest == [wallet_id |-> 0, algorithm |-> "none", amount |-> 0]
NoResponse == [kind |-> "none", status_code |-> 0,
               signature |-> NoSignature, algorithm |-> "none",
               analysis |-> NoAnalysis, fraud_alert |-> NoAlert]

\* Variant: the gate tests a label generate_analysis never produces.
RiskBlocks_wrong_label(analysis) == analysis.risk = "critical"

\* if analysis["risk"] == "high": raise HTTPException(400, detail=analysis)
RiskBlocks(analysis) == analysis.risk = "high"

\* The body of sign_transaction once the request model has been validated:
\* the two dicts it leaves behind, the collaborators it invoked (the guard,
\* the signer: dilithium or sha256, the AI service) and the HTTP response.
sign_transaction(mode, wallets, wallet_id, algorithm, tx, oracle, e, t) ==
    LET message == canonical(tx)
        is_pqc == Lower(algorithm) = "pqc"
        dg == detect_downgrade(mode, wallet_id, TRUE)
        mode1 == IF is_pqc THEN dg.mode ELSE mode
        wallets1 == IF is_pqc THEN wallets \cup {wallet_id} ELSE wallets
        signature ==
            IF is_pqc
            THEN [scheme |-> PQC_ALGO, signer |-> wallet_id, message |-> message]
            ELSE [scheme |-> "sha256", signer |-> 0, message |-> message]
        algo_name == IF is_pqc THEN PQC_ALGO ELSE ECDSA_ALGO
        analysis == generate_analysis(tx, oracle, e, t)
        invoked == (IF is_pqc THEN {"detect_downgrade"} ELSE {})
                   \cup {"Signer", "RiskOracle"}
    IN  IF is_pqc /\ dg.ret
        THEN [mode |-> mode, wallets |-> wallets,
              invoked |-> {"detect_downgrade"},
              response |-> [kind |-> "SecurityDowngrade", status_code |-> 400,
                            signature |-> NoSignature, algorithm |-> "none",
                            analysis |-> NoAnalysis, fraud_alert |-> NoAlert]]
        ELSE IF RiskBlocks(analysis)
        THEN [mode |-> mode1, wallets |-> wallets1, invoked |-> invoked,
              response |-> [kind |-> "RiskRejected", status_code |-> 400,
                            signature |-> NoSignature, algorithm |-> "none",
                            analysis |-> analysis, fraud_alert |-> NoAlert]]
        ELSE [mode |-> mode1, wallets |-> wallets1, invoked |-> invoked,
              response |-> [kind |-> "Signed", status_code |-> 201,
                            signature |-> signature, algorithm |-> algo_name,
                            analysis |-> analysis, fraud_alert |-> NoAlert]]

\* POST /sign: pydantic validation of SignRequest, then the handler.  The
\* handler has no await, so one request runs to its response in one step.
Handle(wallet_id, algorithm, tx, oracle, e, t) ==
    /\ request' = [wallet_id |-> wallet_id, algorithm |-> algorithm,
                   amount |-> tx.amount]
    /\ IF ~TransactionValid(tx)
       THEN /\ response' = [NoResponse EXCEPT !.kind = "ValidationError",
                                              !.status_code = 422]
            /\ UNCHANGED <<wallet_security_mode, pqc_wallets>>
       ELSE LET out == sign_transaction(wallet_security_mode, pqc_wallets,
                                        wallet_id, algorithm, tx, oracle, e, t)
            IN  /\ wallet_security_mode' = out.mode
                /\ pqc_wallets' = out.wallets
                /\ response' = out.response
    /\ UNCHANGED <<guard_vars, replay_vars, analyze_vars, live_vars, race_vars>>

Sign(wallet_id, algorithm, tx, oracle, e, t) ==
    /\ Handle(wallet_id, algorithm, tx, oracle, e, t)
    /\ UNCHANGED sign_call

NoTx == [amount |-> 0, to |-> <<>>, nonce |-> 0, timestamp |-> "", fields |-> {}]
NoSignCall == [op |-> "none", wallet_id |-> 0, algorithm |-> "none",
               tx |-> NoTx, oracle |-> [kind |-> "none", score |-> 0],
               entropy_score |-> 0, timing_leak_score |-> 0,
               ai_risk |-> 0, invoked |-> {}, had_mode |-> FALSE]

\* The same request with everything about it kept in sign_call.
SignObserved(wallet_id, algorithm, tx, oracle, e, t) ==
    LET invoked ==
            IF TransactionValid(tx)
            THEN sign_transaction(wallet_security_mode, pqc_wallets, wallet_id,
                                  algorithm, tx, oracle, e, t).invoked
            ELSE {}
    IN  /\ Handle(wallet_id, algorithm, tx, oracle, e, t)
        /\ sign_call' = [op |-> "sign", wallet_id |-> wallet_id,
                         algorithm |-> algorithm, tx |-> tx, oracle |-> oracle,
                         entropy_score |-> e, timing_leak_score |-> t,
                         ai_risk |-> IF "RiskOracle" \in invoked
                                     THEN get_ai_risk(oracle) ELSE 0,
                         invoked |-> invoked,
                         had_mode |-> wallet_id \in DOMAIN wallet_security_mode]

\* --------------------------------------------------- cryptanalysis/downgrade.py
\* Variant: reporting a downgrade drops the sender's entry.
history_detect_downgrade_forgets(history, sender, is_pqc) ==
    LET previously_used_pqc == sender \in DOMAIN history /\ history[sender]
    IN  IF previously_used_pqc /\ ~is_pqc
        THEN [ret |-> TRUE,
              history |-> [x \in (DOMAIN history) \ {sender} |-> history[x]]]
        ELSE IF is_pqc
        THEN [ret |-> FALSE, history |-> DictSet(history, sender, TRUE)]
        ELSE [ret |-> FALSE, history |-> history]

\* detect_downgrade of downgrade.py: only True is ever stored.
history_detect_downgrade(history, sender, is_pqc) ==
    LET previously_used_pqc == sender \in DOMAIN history /\ history[sender]
    IN  IF previously_used_pqc /\ ~is_pqc
        THEN [ret |-> TRUE, history |-> history]
        ELSE IF is_pqc
        THEN [ret |-> FALSE, history |-> DictSet(history, sender, TRUE)]
        ELSE [ret |-> FALSE, history |-> history]

NoGuardCall == [sender |-> 0, is_pqc |-> FALSE, main |-> FALSE, module |-> FALSE]

\* One (sender, is_pqc) call handed to both guards.
GuardCall(sender, is_pqc) ==
    LET m == detect_downgrade(wallet_security_mode, sender, is_pqc)
        h == history_detect_downgrade(PQC_HISTORY, sender, is_pqc)
    IN  /\ wallet_security_mode' = m.mode
        /\ PQC_HISTORY' = h.history
        /\ guard_call' = [sender |-> sender, is_pqc |-> is_pqc,
                          main |-> m.ret, module |-> h.ret]
        /\ used_pqc' = IF is_pqc THEN used_pqc \cup {sender} ELSE used_pqc
        /\ UNCHANGED <<pqc_wallets, request, response, sign_call,
                       replay_vars, analyze_vars, live_vars, race_vars>>

\* ------------------------------------------------------ cryptanalysis/replay.py
QUOTE == "\""
BACKSLASH == "\\"
BRACE == "}"

RECURSIVE SeqsUpTo(_, _)
SeqsUpTo(alphabet, n) ==
    IF n = 0 THEN {<<>>}
    ELSE LET shorter == SeqsUpTo(alphabet, n - 1)
         IN  shorter \cup {Append(q, c) : q \in shorter, c \in alphabet}

\* json string escaping of the characters the model uses.
RECURSIVE json_escape(_)
json_escape(str) ==
    IF str = <<>> THEN <<>>
    ELSE (IF Head(str) \in {QUOTE, BACKSLASH}
          THEN <<BACKSLASH, Head(str)>> ELSE <<Head(str)>>)
         \o json_escape(Tail(str))

\* json.dumps(tx, sort_keys=True) as the sequence of its tokens, the
\* recipient string character by character.
json_dumps(tx) ==
    <<"{", "amount", ToString(tx.amount), "nonce", ToString(tx.nonce),
      "timestamp", tx.timestamp, "to", QUOTE>>
    \o json_escape(tx.to) \o <<QUOTE, BRACE>>

\* Variant: the signature is left out of the fingerprint.
replay_key_without_signature(tx, signature) == json_dumps(tx)

\* key = sha256((json.dumps(tx, sort_keys=True) + signature).encode()):
\* the hashed string itself, SHA-256 taken as collision free.
replay_key(tx, signature) == json_dumps(tx) \o signature

\* Variant: a new key replaces the set instead of joining it.
detect_replay_keeps_latest(seen, tx, signature) ==
    LET key == replay_key(tx, signature)
    IN  IF key \in seen
        THEN [ret |-> TRUE, seen |-> seen]
        ELSE [ret |-> FALSE, seen |-> {key}]

detect_replay(seen, tx, signature) ==
    LET key == replay_key(tx, signature)
    IN  IF key \in seen
        THEN [ret |-> TRUE, seen |-> seen]
        ELSE [ret |-> FALSE, seen |-> seen \cup {key}]

\* Recipients and signatures made of the characters that end a JSON string
\* and a JSON object, so that one transaction's text can run into the
\* signature of another.
ReplayChars == {QUOTE, BRACE}
ReplayRecipients == {<<>>, BOB, BOB \o <<QUOTE, BRACE>>}
ReplayTxs == [amount : {100}, to : ReplayRecipients, nonce : {1},
              timestamp : {"2024-01-01T00:00:00Z"}]
ReplaySignatures == SeqsUpTo(ReplayChars, MaxSigLen)

NoReplayCall == [tx |-> [amount |-> 0, to |-> <<>>, nonce |-> 0,
                         timestamp |-> ""],
                 signature |-> <<>>, called |-> FALSE, ret |-> FALSE]

\* A direct call detect_replay(tx, signature).
ReplayCall(tx, signature) ==
    LET r == detect_replay(_seen, tx, signature)
        pair == <<tx, signature>>
    IN  /\ pair \in submitted \/ Cardinality(submitted) < MaxPairs
        /\ _seen' = r.seen
        /\ replay_call' = [tx |-> tx, signature |-> signature,
                           called |-> TRUE, ret |-> r.ret]
        /\ submitted' = submitted \cup {pair}
        /\ UNCHANGED <<gate_vars, guard_vars, analyze_vars, live_vars,
                       race_vars>>

\* ---------------------------------------------------- cryptanalysis/zkp_layer.py
\* A zkp dict: which of the keys "enable" and "enabled" it has and with what
\* value, its attributes list, the keys of its public_inputs and their
\* values.  present = FALSE is zkp = None; the empty dict is the record with
\* both flags missing and no attributes or public inputs.
Missing == "missing"
AttrNames == {"amount_gt_zero", "nonce", "recipient"}
NoZkp == [present |-> FALSE, enable |-> Missing, enabled |-> Missing,
          attributes |-> {}, pi_keys |-> {}, pi_amount_gt_zero |-> FALSE,
          pi_nonce |-> 0, pi_recipient |-> <<>>]

MISSING_ATTRIBUTE == "Missing ZKP attribute: amount_gt_zero"
MISSING_PUBLIC_INPUT == "Missing ZKP public input: amount_gt_zero"
AMOUNT_MISMATCH == "ZKP verification failed: amount_gt_zero mismatch"
NONCE_MISMATCH == "ZKP verification failed: nonce mismatch"
RECIPIENT_MISMATCH == "ZKP verification failed: recipient mismatch"

\* Variant: the logical validation of amount_gt_zero is skipped.
verify_zkp_attributes_no_amount_check(tx, zkp) ==
    IF ~zkp.present \/ zkp.enable # "True"
    THEN [ok |-> TRUE, issue |-> ""]
    ELSE IF "amount_gt_zero" \notin zkp.attributes
    THEN [ok |-> FALSE, issue |-> MISSING_ATTRIBUTE]
    ELSE IF "amount_gt_zero" \notin zkp.pi_keys
    THEN [ok |-> FALSE, issue |-> MISSING_PUBLIC_INPUT]
    ELSE [ok |-> TRUE, issue |-> ""]

\* Variant: a dict without the flag counts as enabled.
verify_zkp_attributes_default_enabled(tx, zkp) ==
    IF ~zkp.present \/ zkp.enable = "False"
    THEN [ok |-> TRUE, issue |-> ""]
    ELSE IF "amount_gt_zero" \notin zkp.attributes
    THEN [ok |-> FALSE, issue |-> MISSING_ATTRIBUTE]
    ELSE IF "amount_gt_zero" \notin zkp.pi_keys
    THEN [ok |-> FALSE, issue |-> MISSING_PUBLIC_INPUT]
    ELSE IF zkp.pi_amount_gt_zero # (tx.amount > 0)
    THEN [ok |-> FALSE, issue |-> AMOUNT_MISMATCH]
    ELSE IF /\ "nonce" \in zkp.attributes
            /\ ("nonce" \notin zkp.pi_keys \/ zkp.pi_nonce # tx.nonce)
    THEN [ok |-> FALSE, issue |-> NONCE_MISMATCH]
    ELSE IF /\ "recipient" \in zkp.attributes
            /\ ("recipient" \notin zkp.pi_keys \/ zkp.pi_recipient # tx.to)
    THEN [ok |-> FALSE, issue |-> RECIPIENT_MISMATCH]
    ELSE [ok |-> TRUE, issue |-> ""]

\* Variant: the recipient is checked before the nonce.
verify_zkp_attributes_recipient_first(tx, zkp) ==
    IF ~zkp.present \/ zkp.enable # "True"
    THEN [ok |-> TRUE, issue |-> ""]
    ELSE IF "amount_gt_zero" \notin zkp.attributes
    THEN [ok |-> FALSE, issue |-> MISSING_ATTRIBUTE]
    ELSE IF "amount_gt_zero" \notin zkp.pi_keys
    THEN [ok |-> FALSE, issue |-> MISSING_PUBLIC_INPUT]
    ELSE IF zkp.pi_amount_gt_zero # (tx.amount > 0)
    THEN [ok |-> FALSE, issue |-> AMOUNT_MISMATCH]
    ELSE IF /\ "recipient" \in zkp.attributes
            /\ ("recipient" \notin zkp.pi_keys \/ zkp.pi_recipient # tx.to)
    THEN [ok |-> FALSE, issue |-> RECIPIENT_MISMATCH]
    ELSE IF /\ "nonce" \in zkp.attributes
            /\ ("nonce" \notin zkp.pi_keys \/ zkp.pi_nonce # tx.nonce)
    THEN [ok |-> FALSE, issue |-> NONCE_MISMATCH]
    ELSE [ok |-> TRUE, issue |-> ""]

verify_zkp_attributes(tx, zkp) ==
    IF ~zkp.present \/ zkp.enable # "True"
    THEN [ok |-> TRUE, issue |-> ""]
    ELSE IF "amount_gt_zero" \notin zkp.attributes
    THEN [ok |-> FALSE, issue |-> MISSING_ATTRIBUTE]
    ELSE IF "amount_gt_zero" \notin zkp.pi_keys
    THEN [ok |-> FALSE, issue |-> MISSING_PUBLIC_INPUT]
    ELSE IF zkp.pi_amount_gt_zero # (tx.amount > 0)
    THEN [ok |-> FALSE, issue |-> AMOUNT_MISMATCH]
    ELSE IF /\ "nonce" \in zkp.attributes
            /\ ("nonce" \notin zkp.pi_keys \/ zkp.pi_nonce # tx.nonce)
    THEN [ok |-> FALSE, issue |-> NONCE_MISMATCH]
    ELSE IF /\ "recipient" \in zkp.attributes
            /\ ("recipient" \notin zkp.pi_keys \/ zkp.pi_recipient # tx.to)
    THEN [ok |-> FALSE, issue |-> RECIPIENT_MISMATCH]
    ELSE [ok |-> TRUE, issue |-> ""]

\* -------------------------------------------------- cryptanalysis/sidechannel.py
RECURSIVE TextLen(_)
TextLen(str) == IF str = <<>> THEN 0 ELSE Len(Head(str)) + TextLen(Tail(str))

\* len(str(tx)) of a four-field transaction dict whose recipient holds no
\* quote or backslash: 50 characters of braces, keys, quotes and separators.
STR_OVERHEAD == 50
str_len(tx) ==
    STR_OVERHEAD + Len(ToString(tx.amount)) + TextLen(tx.to)
    + Len(ToString(tx.nonce)) + Len(tx.timestamp)

\* timing_leak_score in thousandths; jitter is random.uniform(0.0, 0.4).
JITTER_MAX == 400
timing_leak_score(tx, jitter) == Min(1000, str_len(tx) + jitter)

\* ----------------------------------------------------- cryptanalysis/analyzer.py
VERY_LOW_ENTROPY == 15
LOW_ENTROPY == 35
HIGH_TIMING == 850
MODERATE_TIMING == 450
HEX_SYMBOLS == 16

\* 1 replay detection
apply_replay(s, replay) ==
    IF replay
    THEN [secure |-> FALSE, risk |-> "high",
          issues |-> Append(s.issues, "Replay attack detected")]
    ELSE s

\* 2 message entropy: entropy = distinct / 16.0 against 0.15 and 0.35
\* Variant: the low entropy branch blocks as the very low one does.
apply_entropy_low_blocks(s, distinct) ==
    IF distinct * 100 < VERY_LOW_ENTROPY * HEX_SYMBOLS
    THEN [secure |-> FALSE, risk |-> "high",
          issues |-> Append(s.issues, "Very low message entropy")]
    ELSE IF distinct * 100 < LOW_ENTROPY * HEX_SYMBOLS
    THEN [secure |-> FALSE, risk |-> "medium",
          issues |-> Append(s.issues, "Low message entropy")]
    ELSE s

apply_entropy(s, distinct) ==
    IF distinct * 100 < VERY_LOW_ENTROPY * HEX_SYMBOLS
    THEN [secure |-> FALSE, risk |-> "high",
          issues |-> Append(s.issues, "Very low message entropy")]
    ELSE IF distinct * 100 < LOW_ENTROPY * HEX_SYMBOLS
    THEN [secure |-> s.secure, risk |-> "medium",
          issues |-> Append(s.issues, "Low message entropy")]
    ELSE s

\* Variant: the high timing branch forgets secure = False.
apply_timing_keeps_secure(s, timing) ==
    IF timing > HIGH_TIMING
    THEN [secure |-> s.secure, risk |-> "high",
          issues |-> Append(s.issues, "High timing side-channel risk")]
    ELSE IF timing > MODERATE_TIMING
    THEN [secure |-> s.secure,
          risk |-> IF s.risk # "high" THEN "medium" ELSE s.risk,
          issues |-> Append(s.issues, "Moderate timing side-channel risk")]
    ELSE s

\* 3 timing side-channel
\* Variant: a score of exactly 0.85 already counts as high.
apply_timing_at_threshold(s, timing) ==
    IF timing >= HIGH_TIMING
    THEN [secure |-> FALSE, risk |-> "high",
          issues |-> Append(s.issues, "High timing side-channel risk")]
    ELSE IF timing > MODERATE_TIMING
    THEN [secure |-> s.secure,
          risk |-> IF s.risk # "high" THEN "medium" ELSE s.risk,
          issues |-> Append(s.issues, "Moderate timing side-channel risk")]
    ELSE s

apply_timing(s, timing) ==
    IF timing > HIGH_TIMING
    THEN [secure |-> FALSE, risk |-> "high",
          issues |-> Append(s.issues, "High timing side-channel risk")]
    ELSE IF timing > MODERATE_TIMING
    THEN [secure |-> s.secure,
          risk |-> IF s.risk # "high" THEN "medium" ELSE s.risk,
          issues |-> Append(s.issues, "Moderate timing side-channel risk")]
    ELSE s

\* Variant: a failed ZKP only raises the risk to medium.
apply_zkp_medium(s, zkp, zr) ==
    IF zkp.present /\ ~zr.ok
    THEN [secure |-> s.secure,
          risk |-> IF s.risk # "high" THEN "medium" ELSE s.risk,
          issues |-> Append(s.issues, zr.issue)]
    ELSE s

\* 4 ZKP attribute verification
apply_zkp(s, zkp, zr) ==
    IF zkp.present /\ ~zr.ok
    THEN [secure |-> FALSE, risk |-> "high",
          issues |-> Append(s.issues, zr.issue)]
    ELSE s

\* round(distinct / 16.0, 3) in thousandths (ties go to the even digit).
\* Variant: the count is divided by the 64 characters of the digest.
round3_entropy_of_length(distinct) ==
    LET q == (distinct * 15625) \div 1000
        r == (distinct * 15625) % 1000
    IN  IF r > 500 \/ (r = 500 /\ q % 2 = 1) THEN q + 1 ELSE q

round3_entropy(distinct) ==
    LET q == (distinct * 625) \div 10
        r == (distinct * 625) % 10
    IN  IF r > 5 \/ (r = 5 /\ q % 2 = 1) THEN q + 1 ELSE q

\* analyze_transaction: the set _seen it leaves behind, the verdicts of the
\* signals, (secure, risk, issues) after each of the four stages, and the
\* returned dict.
analyze_transaction(seen, tx, signature, zkp, jitter, distinct) ==
    LET r == detect_replay(seen, tx, signature)
        s0 == [secure |-> TRUE, risk |-> "low", issues |-> <<>>]
        s1 == apply_replay(s0, r.ret)
        s2 == apply_entropy(s1, distinct)
        timing == timing_leak_score(tx, jitter)
        s3 == apply_timing(s2, timing)
        zr == IF zkp.present THEN verify_zkp_attributes(tx, zkp)
              ELSE [ok |-> TRUE, issue |-> ""]
        s4 == apply_zkp(s3, zkp, zr)
    IN  [seen |-> r.seen, replay |-> r.ret, zkp_ok |-> zr.ok,
         zkp_issue |-> zr.issue, distinct |-> distinct, timing |-> timing,
         steps |-> <<s1, s2, s3, s4>>,
         analysis |-> [secure |-> s4.secure, risk |-> s4.risk,
                       issues |-> s4.issues,
                       metrics |-> [entropy |-> round3_entropy(distinct),
                                    timing_leak_score |-> timing]]]

\* Inputs of the analyzer model.  Strings are sequences of pieces; TX_A is
\* a short payload (77 characters as text), TX_B has a recipient of
\* PadChunks * 47 + 3 characters, which puts its timing base above 0.45.
PadChunks == 8
CHUNK == "aaaaaaaaaaaaaaaaaaaaaaaaaaaaaaaaaaaaaaaaaaaaaaa"
PAD == [i \in 1..PadChunks |-> CHUNK] \o BOB
TX_A == [amount |-> 100, to |-> BOB, nonce |-> 1,
         timestamp |-> "2024-01-01T00:00:00Z"]
TX_B == [amount |-> 0, to |-> PAD, nonce |-> 2,
         timestamp |-> "2024-01-01T00:00:00Z"]
AnalyzeTxs == {TX_A, TX_B}
AnalyzeSignatures == {<<"a">>}
Jitters == {0, 374, JITTER_MAX}
DistinctCases == {1, 2, 3, 5, 6, HEX_SYMBOLS}

\* TX_C has a recipient of LongChunks * 47 + 3 characters: its text is
\* longer than 600 characters, so base + jitter can pass 1.0.
LongChunks == 14
TX_C == [amount |-> 100, to |-> [i \in 1..LongChunks |-> CHUNK] \o BOB,
         nonce |-> 3, timestamp |-> "2024-01-01T00:00:00Z"]
TimingTxs == AnalyzeTxs \cup {TX_C}
\* The draws of random.uniform(0.0, 0.4) that put the score of tx on either
\* side of 0.45, 0.85 and 1.0, and the two ends of the range.
BoundaryJitters(tx) ==
    {0, JITTER_MAX}
    \cup {j \in 0..JITTER_MAX :
            str_len(tx) + j \in {MODERATE_TIMING, MODERATE_TIMING + 1,
                                 HIGH_TIMING, HIGH_TIMING + 1, 1000, 1001}}

\* Enabled proofs: every shape of attributes and public inputs the verifier
\* tells apart, the declared values being those of TX_A.
EnabledZkps ==
    {z \in [present : {TRUE}, enable : {"True"}, enabled : {Missing},
            attributes : {{}, {"amount_gt_zero"}, {"amount_gt_zero", "nonce"},
                          {"amount_gt_zero", "recipient"}},
            pi_keys : {{}, AttrNames}, pi_amount_gt_zero : BOOLEAN,
            pi_nonce : {1}, pi_recipient : {BOB}] :
        z.pi_keys = {} => ~z.pi_amount_gt_zero}
\* The zkp of end-to-end scenario 4 with the flag under the given key.
Scenario4Zkp(flag_key) ==
    [present |-> TRUE,
     enable |-> IF flag_key = "enable" THEN "True" ELSE Missing,
     enabled |-> IF flag_key = "enabled" THEN "True" ELSE Missing,
     attributes |-> {"amount_gt_zero"}, pi_keys |-> {"amount_gt_zero"},
     pi_amount_gt_zero |-> FALSE, pi_nonce |-> 1, pi_recipient |-> BOB]
AnalyzeZkps ==
    {NoZkp, Scenario4Zkp("enable"), Scenario4Zkp("enabled"),
     [Scenario4Zkp("enable") EXCEPT !.enable = "False"]}
    \cup EnabledZkps
\* Every dict shape: either flag key absent, true or false, any attribute
\* list, any public inputs with values of TX_A or of TX_B.
ZkpDicts ==
    [present : {TRUE}, enable : {"True", "False", Missing},
     enabled : {"True", "False", Missing},
     attributes : SUBSET AttrNames, pi_keys : SUBSET AttrNames,
     pi_amount_gt_zero : BOOLEAN, pi_nonce : {1, 2}, pi_recipient : {BOB, PAD}]
    \cup {NoZkp}

NoStage == [secure |-> TRUE, risk |-> "none", issues |-> <<>>]
NoCall == [op |-> "none", tx |-> NoReplayCall.tx, signature |-> <<>>,
           zkp |-> NoZkp, replay |-> FALSE, zkp_ok |-> TRUE, zkp_issue |-> "",
           distinct |-> 0, timing |-> 0,
           steps |-> <<NoStage, NoStage, NoStage, NoStage>>,
           analysis |-> [secure |-> TRUE, risk |-> "none", issues |-> <<>>,
                         metrics |-> [entropy |-> 0, timing_leak_score |-> 0]],
           risk_score |-> 0]

\* A call analyze_transaction(tx, signature, algorithm, zkp).
AnalyzeCall(tx, signature, zkp, jitter) ==
    LET a == analyze_transaction(_seen, tx, signature, zkp, jitter,
                                 sha_symbols[tx])
    IN  /\ _seen' = a.seen
        /\ call' = [op |-> "analyze_transaction", tx |-> tx,
                    signature |-> signature, zkp |-> zkp, replay |-> a.replay,
                    zkp_ok |-> a.zkp_ok, zkp_issue |-> a.zkp_issue,
                    distinct |-> a.distinct, timing |-> a.timing,
                    steps |-> a.steps, analysis |-> a.analysis,
                    risk_score |-> 0]
        /\ UNCHANGED <<gate_vars, guard_vars, replay_call, submitted,
                       sha_symbols, alert_call, live_vars, race_vars>>

\* A call generate_analysis(tx_dict, algorithm) of main.py.
GenerateCall(tx, oracle, e, t) ==
    LET g == generate_analysis(tx, oracle, e, t)
    IN  /\ call' = [NoCall EXCEPT !.op = "generate_analysis",
                                  !.analysis.secure = g.secure,
                                  !.analysis.risk = g.risk,
                                  !.risk_score = g.risk_score]
        /\ UNCHANGED <<gate_vars, guard_vars, replay_vars, sha_symbols,
                       alert_call, live_vars, race_vars>>

\* ------------------------------------------------------- concurrent callers
NumThreads == 2
Threads == 1..NumThreads
\* Callers on threads of their own.  None of the three functions takes
\* a lock, so a thread can be suspended between the statement that reads the
\* shared set or dict and the statement that writes it.  pc is idle before
\* the call, read between the two statements, done after the return.
\* after_pqc and overwrote are history: whether a pqc call of the same
\* sender had returned when this call read, and whether this call stored
\* False over a stored True.
NoThread == [op |-> "none", pc |-> "idle", sender |-> 0, is_pqc |-> FALSE,
             key |-> <<>>, previous |-> "None", ret |-> FALSE,
             after_pqc |-> FALSE, overwrote |-> FALSE]
MAIN_GUARD == "main.detect_downgrade"
HISTORY_GUARD == "downgrade.detect_downgrade"

PqcCallReturned(guard, sender) ==
    \E u \in Threads : /\ threads[u].op = guard
                       /\ threads[u].sender = sender
                       /\ threads[u].is_pqc
                       /\ threads[u].pc = "done"

\* replay.py:6-11: the key and the test `key in _seen`.
ReplayTest(t, tx, signature) ==
    LET key == replay_key(tx, signature)
    IN  /\ threads[t].pc = "idle"
        /\ threads' = [threads EXCEPT ![t] =
               [NoThread EXCEPT !.op = "detect_replay", !.key = key,
                                !.pc = IF key \in _seen THEN "done" ELSE "read",
                                !.ret = key \in _seen]]
        /\ UNCHANGED <<gate_vars, guard_vars, replay_vars, analyze_vars,
                       live_vars>>

\* replay.py:13-14: _seen.add(key); return False.
ReplayAdd(t) ==
    /\ threads[t].op = "detect_replay"
    /\ threads[t].pc = "read"
    /\ _seen' = _seen \cup {threads[t].key}
    /\ threads' = [threads EXCEPT ![t].pc = "done", ![t].ret = FALSE]
    /\ UNCHANGED <<gate_vars, guard_vars, replay_call, submitted,
                   analyze_vars, live_vars>>

\* main.py:84: previous = wallet_security_mode.get(wallet_id)
MainRead(t, sender, is_pqc) ==
    /\ threads[t].pc = "idle"
    /\ threads' = [threads EXCEPT ![t] =
           [NoThread EXCEPT
              !.op = MAIN_GUARD, !.pc = "read", !.sender = sender,
              !.is_pqc = is_pqc,
              !.previous = IF sender \notin DOMAIN wallet_security_mode
                           THEN "None"
                           ELSE IF wallet_security_mode[sender] THEN "True"
                           ELSE "False",
              !.after_pqc = PqcCallReturned(MAIN_GUARD, sender)]]
    /\ UNCHANGED <<gate_vars, guard_vars, replay_vars, analyze_vars, live_vars>>

\* main.py:85-88: the test on previous, the store and the return.
MainWrite(t) ==
    /\ threads[t].op = MAIN_GUARD
    /\ threads[t].pc = "read"
    /\ IF threads[t].previous = "True" /\ ~threads[t].is_pqc
       THEN /\ threads' = [threads EXCEPT ![t].pc = "done", ![t].ret = TRUE]
            /\ UNCHANGED wallet_security_mode
       ELSE /\ wallet_security_mode' =
                   DictSet(wallet_security_mode, threads[t].sender,
                           threads[t].is_pqc)
            /\ threads' =
                   [threads EXCEPT
                      ![t].pc = "done", ![t].ret = FALSE,
                      ![t].overwrote =
                         /\ ~threads[t].is_pqc
                         /\ threads[t].sender \in DOMAIN wallet_security_mode
                         /\ wallet_security_mode[threads[t].sender]]
    /\ UNCHANGED <<pqc_wallets, request, response, sign_call, guard_vars,
                   replay_vars, analyze_vars, live_vars>>

\* downgrade.py:10: previously_used_pqc = PQC_HISTORY.get(sender, False)
HistoryRead(t, sender, is_pqc) ==
    /\ threads[t].pc = "idle"
    /\ threads' = [threads EXCEPT ![t] =
           [NoThread EXCEPT
              !.op = HISTORY_GUARD, !.pc = "read", !.sender = sender,
              !.is_pqc = is_pqc,
              !.previous = IF sender \in DOMAIN PQC_HISTORY
                              /\ PQC_HISTORY[sender]
                           THEN "True" ELSE "False",
              !.after_pqc = PqcCallReturned(HISTORY_GUARD, sender)]]
    /\ UNCHANGED <<gate_vars, guard_vars, replay_vars, analyze_vars, live_vars>>

\* downgrade.py:12-18: the test, the store of True and the return.
HistoryWrite(t) ==
    /\ threads[t].op = HISTORY_GUARD
    /\ threads[t].pc = "read"
    /\ IF threads[t].previous = "True" /\ ~threads[t].is_pqc
       THEN /\ threads' = [threads EXCEPT ![t].pc = "done", ![t].ret = TRUE]
            /\ UNCHANGED PQC_HISTORY
       ELSE /\ PQC_HISTORY' =
                   IF threads[t].is_pqc
                   THEN DictSet(PQC_HISTORY, threads[t].sender, TRUE)
                   ELSE PQC_HISTORY
            /\ threads' = [threads EXCEPT ![t].pc = "done", ![t].ret = FALSE]
    /\ UNCHANGED <<gate_vars, guard_call, used_pqc, replay_vars,
                   analyze_vars, live_vars>>

\* ------------------------------------------- main.py, the handler step by step
\* The states of a request: Received once the body is validated, Canonicalized
\* after canonical() (main.py:177), Checked when generate_analysis has
\* returned (main.py:202), then Signed (201) or Rejected (400).  Between
\* Canonicalized and Checked the handler asks the guard, signs and waits for
\* requests.post.

\* Variant: requests.post is called without a timeout.
OracleNeverTimesOut == FALSE

\* requests.post(..., timeout=3): a call without an answer ends by
\* raising requests.Timeout.
OracleTimesOut == TRUE

NoInflight == [wallet_id |-> 0, algorithm |-> "none", tx |-> NoTx,
               message |-> <<>>, signature |-> NoSignature,
               ai_call |-> "unsent", oracle |-> [kind |-> "none", score |-> 0],
               entropy_score |-> 0, timing_leak_score |-> 0,
               analysis |-> NoAnalysis]

\* A POST /sign arrives while the handler is free.  A body that fails
\* validation is answered 422 and never enters the handler.
Receive(wallet_id, algorithm, tx) ==
    /\ pc \in {"Idle", "Signed", "Rejected"}
    /\ request' = [wallet_id |-> wallet_id, algorithm |-> algorithm,
                   amount |-> tx.amount]
    /\ IF ~TransactionValid(tx)
       THEN /\ response' = [NoResponse EXCEPT !.kind = "ValidationError",
                                              !.status_code = 422]
            /\ UNCHANGED <<pc, inflight>>
       ELSE /\ response' = NoResponse
            /\ pc' = "Received"
            /\ inflight' = [NoInflight EXCEPT !.wallet_id = wallet_id,
                                              !.algorithm = algorithm,
                                              !.tx = tx]
    /\ UNCHANGED <<wallet_security_mode, pqc_wallets, sign_call, guard_vars,
                   replay_vars, analyze_vars, race_vars>>

\* message = canonical(request.transaction.dict())
Canonicalize ==
    /\ pc = "Received"
    /\ pc' = "Canonicalized"
    /\ inflight' = [inflight EXCEPT !.message = canonical(inflight.tx)]
    /\ UNCHANGED <<wallet_security_mode, pqc_wallets, request, response,
                   sign_call, guard_vars, replay_vars, analyze_vars, race_vars>>

\* main.py:179-200 and the start of generate_analysis: the guard and the
\* signer, then the two random draws and the request to the AI service.
GuardAndSign(e, t) ==
    LET is_pqc == Lower(inflight.algorithm) = "pqc"
        dg == detect_downgrade(wallet_security_mode, inflight.wallet_id, TRUE)
    IN  /\ pc = "Canonicalized"
        /\ inflight.ai_call = "unsent"
        /\ IF is_pqc /\ dg.ret
           THEN /\ pc' = "Rejected"
                /\ response' = [NoResponse EXCEPT !.kind = "SecurityDowngrade",
                                                  !.status_code = 400]
                /\ UNCHANGED <<wallet_security_mode, pqc_wallets, inflight>>
           ELSE /\ wallet_security_mode' =
                       IF is_pqc THEN dg.mode ELSE wallet_security_mode
                /\ pqc_wallets' =
                       IF is_pqc THEN pqc_wallets \cup {inflight.wallet_id}
                       ELSE pqc_wallets
                /\ inflight' =
                       [inflight EXCEPT
                          !.signature =
                             IF is_pqc
                             THEN [scheme |-> PQC_ALGO,
                                   signer |-> inflight.wallet_id,
                                   message |-> inflight.message]
                             ELSE [scheme |-> "sha256", signer |-> 0,
                                   message |-> inflight.message],
                          !.entropy_score = e,
                          !.timing_leak_score = t,
                          !.ai_call = "pending"]
                /\ UNCHANGED <<pc, response>>
        /\ UNCHANGED <<request, sign_call, guard_vars, replay_vars,
                       analyze_vars, race_vars>>

\* generate_analysis with the outcome of the AI call.
Checked(oracle) ==
    /\ pc' = "Checked"
    /\ inflight' = [inflight EXCEPT
                       !.ai_call = "returned",
                       !.oracle = oracle,
                       !.analysis = generate_analysis(inflight.tx, oracle,
                                                      inflight.entropy_score,
                                                      inflight.timing_leak_score)]
    /\ UNCHANGED <<wallet_security_mode, pqc_wallets, request, response,
                   sign_call, guard_vars, replay_vars, analyze_vars, race_vars>>

\* requests.post returns or raises before the timeout.
OracleReturn(oracle) ==
    /\ pc = "Canonicalized"
    /\ inflight.ai_call = "pending"
    /\ oracle.kind # "timeout"
    /\ Checked(oracle)

\* No answer within the timeout.
OracleTimeout ==
    /\ pc = "Canonicalized"
    /\ inflight.ai_call = "pending"
    /\ OracleTimesOut
    /\ Checked([kind |-> "timeout", score |-> 0])

\* main.py:204-215: 400 with the analysis, or the 201 answer.
Respond ==
    /\ pc = "Checked"
    /\ IF RiskBlocks(inflight.analysis)
       THEN /\ pc' = "Rejected"
            /\ response' = [NoResponse EXCEPT !.kind = "RiskRejected",
                                              !.status_code = 400,
                                              !.analysis = inflight.analysis]
       ELSE /\ pc' = "Signed"
            /\ response' =
                   [NoResponse EXCEPT
                      !.kind = "Signed", !.status_code = 201,
                      !.signature = inflight.signature,
                      !.algorithm = IF Lower(inflight.algorithm) = "pqc"
                                    THEN PQC_ALGO ELSE ECDSA_ALGO,
                      !.analysis = inflight.analysis]
    /\ UNCHANGED <<wallet_security_mode, pqc_wallets, request, inflight,
                   sign_call, guard_vars, replay_vars, analyze_vars, race_vars>>

\* ------------------------------------------------- cryptanalysis/fraud_mapper.py
\* An analysis dict with its key set: analyze_transaction returns the four
\* keys of AnalyzerKeys, generate_analysis of main.py those of GateKeys.
\* The value of an absent key is a placeholder nothing reads.
AnalyzerKeys == {"secure", "risk", "issues", "metrics"}
GateKeys == {"secure", "risk", "risk_score"}

\* sep.join(strs), a string being a sequence of pieces.
RECURSIVE join(_, _)
join(sep, strs) ==
    IF strs = <<>> THEN <<>>
    ELSE IF Len(strs) = 1 THEN <<Head(strs)>>
    ELSE <<Head(strs), sep>> \o join(sep, Tail(strs))

KeyErrorAlert == [raised |-> TRUE, fraud |-> FALSE, probability |-> 0,
                  severity |-> "", reason |-> <<>>]

\* Variant: the probability of a medium alert follows the timing metric.
map_to_fraud_alert_uses_timing(analysis) ==
    LET risk == IF "risk" \in analysis.keys THEN analysis.risk ELSE "low"
    IN  IF "metrics" \notin analysis.keys THEN KeyErrorAlert
        ELSE IF risk = "high"
        THEN IF "issues" \notin analysis.keys THEN KeyErrorAlert
             ELSE [raised |-> FALSE, fraud |-> TRUE, probability |-> 85,
                   severity |-> "High", reason |-> join(", ", analysis.issues)]
        ELSE IF risk = "medium"
        THEN [raised |-> FALSE, fraud |-> TRUE,
              probability |-> analysis.metrics.timing_leak_score \div 10,
              severity |-> "Medium",
              reason |-> <<"Suspicious entropy or timing pattern">>]
        ELSE [raised |-> FALSE, fraud |-> FALSE, probability |-> 10,
              severity |-> "Low", reason |-> <<"Transaction appears normal">>]

\* map_to_fraud_alert; probability in hundredths.  analysis["metrics"] is
\* read first and raises KeyError on a dict without it.
map_to_fraud_alert(analysis) ==
    LET risk == IF "risk" \in analysis.keys THEN analysis.risk ELSE "low"
    IN  IF "metrics" \notin analysis.keys THEN KeyErrorAlert
        ELSE IF risk = "high"
        THEN IF "issues" \notin analysis.keys THEN KeyErrorAlert
             ELSE [raised |-> FALSE, fraud |-> TRUE, probability |-> 85,
                   severity |-> "High", reason |-> join(", ", analysis.issues)]
        ELSE IF risk = "medium"
        THEN [raised |-> FALSE, fraud |-> TRUE, probability |-> 55,
              severity |-> "Medium",
              reason |-> <<"Suspicious entropy or timing pattern">>]
        ELSE [raised |-> FALSE, fraud |-> FALSE, probability |-> 10,
              severity |-> "Low", reason |-> <<"Transaction appears normal">>]

FraudIssues ==
    {<<>>, <<"Replay attack detected">>, <<"Low message entropy">>,
     <<"Replay attack detected", "Low message entropy">>}
FraudAnalyses ==
    [secure : BOOLEAN, risk : {"low", "medium", "high"}, issues : FraudIssues,
     metrics : [entropy : {125, 1000}, timing_leak_score : {100, 900}],
     keys : {AnalyzerKeys, AnalyzerKeys \ {"risk"}, GateKeys}]

NoAlertCall == [op |-> "none", first |-> <<>>, second |-> <<>>,
                alerts |-> <<NoAlert, NoAlert>>]

\* map_to_fraud_alert called on two analysis dicts.
MapCall(first, second) ==
    /\ alert_call' = [op |-> "map_to_fraud_alert",
                      first |-> <<first>>, second |-> <<second>>,
                      alerts |-> <<map_to_fraud_alert(first),
                                   map_to_fraud_alert(second)>>]
    /\ UNCHANGED <<gate_vars, guard_vars, replay_vars, sha_symbols, call,
                   live_vars, race_vars>>

\* ------------------------------------------------------------ specifications
Init ==
    /\ wallet_security_mode = EmptyDict
    /\ pqc_wallets = {}
    /\ request = NoRequest
    /\ response = NoResponse
    /\ sign_call = NoSignCall
    /\ PQC_HISTORY = EmptyDict
    /\ guard_call = NoGuardCall
    /\ used_pqc = {}
    /\ _seen = {}
    /\ replay_call = NoReplayCall
    /\ submitted = {}
    /\ sha_symbols = [tx \in AnalyzeTxs |-> HEX_SYMBOLS]
    /\ call = NoCall
    /\ alert_call = NoAlertCall
    /\ pc = "Idle"
    /\ inflight = NoInflight
    /\ threads = [t \in Threads |-> NoThread]

\* The analyzer starts with a digest table in which the transactions of the
\* model fall into one class of distinct-symbol counts, any of DistinctCases.
InitAnalyze ==
    /\ wallet_security_mode = EmptyDict
    /\ pqc_wallets = {}
    /\ request = NoRequest
    /\ response = NoResponse
    /\ sign_call = NoSignCall
    /\ PQC_HISTORY = EmptyDict
    /\ guard_call = NoGuardCall
    /\ used_pqc = {}
    /\ _seen = {}
    /\ replay_call = NoReplayCall
    /\ submitted = {}
    /\ \E d \in DistinctCases : sha_symbols = [tx \in AnalyzeTxs |-> d]
    /\ call = NoCall
    /\ alert_call = NoAlertCall
    /\ pc = "Idle"
    /\ inflight = NoInflight
    /\ threads = [t \in Threads |-> NoThread]

Next ==
    \E wallet_id \in Wallets, algorithm \in Algorithms, tx \in GateTxs,
       oracle \in OracleOutcomes, e \in EdgeEntropyDraws,
       t \in EdgeTimingDraws :
        Sign(wallet_id, algorithm, tx, oracle, e, t)

Spec == Init /\ [][Next]_vars

NextGuard ==
    \E sender \in Senders, is_pqc \in BOOLEAN : GuardCall(sender, is_pqc)

SpecGuard == Init /\ [][NextGuard]_vars

NextReplay ==
    \E tx \in ReplayTxs, signature \in ReplaySignatures : ReplayCall(tx, signature)

SpecReplay == Init /\ [][NextReplay]_vars

NextAnalyze ==
    \/ \E tx \in AnalyzeTxs, signature \in AnalyzeSignatures,
          zkp \in AnalyzeZkps, jitter \in Jitters :
           AnalyzeCall(tx, signature, zkp, jitter)
    \/ \E tx \in CompleteTxs, oracle \in OracleOutcomes,
          e \in EdgeEntropyDraws, t \in EdgeTimingDraws :
           GenerateCall(tx, oracle, e, t)

SpecAnalyze == InitAnalyze /\ [][NextAnalyze]_vars

\* One analysis of any transaction with any zkp dict, started with _seen
\* empty or as earlier analyses of the model transactions leave it.
InitVerify ==
    /\ wallet_security_mode = EmptyDict
    /\ pqc_wallets = {}
    /\ request = NoRequest
    /\ response = NoResponse
    /\ sign_call = NoSignCall
    /\ PQC_HISTORY = EmptyDict
    /\ guard_call = NoGuardCall
    /\ used_pqc = {}
    /\ _seen \in {{}, {replay_key(tx, signature) :
                            tx \in AnalyzeTxs, signature \in AnalyzeSignatures}}
    /\ replay_call = NoReplayCall
    /\ submitted = {}
    /\ \E d \in DistinctCases : sha_symbols = [tx \in AnalyzeTxs |-> d]
    /\ call = NoCall
    /\ alert_call = NoAlertCall
    /\ pc = "Idle"
    /\ inflight = NoInflight
    /\ threads = [t \in Threads |-> NoThread]

\* The first call of analyze_transaction after the state the run started in.
NextVerify ==
    /\ call.op = "none"
    /\ \E tx \in AnalyzeTxs, signature \in AnalyzeSignatures,
          zkp \in ZkpDicts, jitter \in Jitters :
           AnalyzeCall(tx, signature, zkp, jitter)

SpecVerify == InitVerify /\ [][NextVerify]_vars

\* One analysis of a short, a medium or a long transaction with the timing
\* score on and next to each threshold.
InitTiming ==
    /\ wallet_security_mode = EmptyDict
    /\ pqc_wallets = {}
    /\ request = NoRequest
    /\ response = NoResponse
    /\ sign_call = NoSignCall
    /\ PQC_HISTORY = EmptyDict
    /\ guard_call = NoGuardCall
    /\ used_pqc = {}
    /\ _seen \in {{}, {replay_key(tx, signature) :
                            tx \in TimingTxs, signature \in AnalyzeSignatures}}
    /\ replay_call = NoReplayCall
    /\ submitted = {}
    /\ \E d \in DistinctCases : sha_symbols = [tx \in TimingTxs |-> d]
    /\ call = NoCall
    /\ alert_call = NoAlertCall
    /\ pc = "Idle"
    /\ inflight = NoInflight
    /\ threads = [t \in Threads |-> NoThread]

NextTiming ==
    /\ call.op = "none"
    /\ \E tx \in TimingTxs, signature \in AnalyzeSignatures,
          zkp \in AnalyzeZkps :
          \E jitter \in BoundaryJitters(tx) :
             AnalyzeCall(tx, signature, zkp, jitter)

SpecTiming == InitTiming /\ [][NextTiming]_vars

\* One POST /sign against any state earlier requests leave behind: the
\* wallets that signed with pqc have a key pair and the mode True.
InitRequest ==
    /\ \E S \in SUBSET Wallets :
          /\ wallet_security_mode = [w \in S |-> TRUE]
          /\ pqc_wallets = S
    /\ request = NoRequest
    /\ response = NoResponse
    /\ sign_call = NoSignCall
    /\ PQC_HISTORY = EmptyDict
    /\ guard_call = NoGuardCall
    /\ used_pqc = {}
    /\ _seen = {}
    /\ replay_call = NoReplayCall
    /\ submitted = {}
    /\ sha_symbols = [tx \in AnalyzeTxs |-> HEX_SYMBOLS]
    /\ call = NoCall
    /\ alert_call = NoAlertCall
    /\ pc = "Idle"
    /\ inflight = NoInflight
    /\ threads = [t \in Threads |-> NoThread]

NextRequest ==
    /\ sign_call.op = "none"
    /\ \E wallet_id \in Wallets, algorithm \in Algorithms, tx \in GateTxs,
          oracle \in OracleOutcomes, e \in EntropyDraws, t \in TimingDraws :
           SignObserved(wallet_id, algorithm, tx, oracle, e, t)

SpecRequest == InitRequest /\ [][NextRequest]_vars

\* map_to_fraud_alert applied once to any two analysis dicts.
NextFraud ==
    /\ alert_call.op = "none"
    /\ \E first \in FraudAnalyses, second \in FraudAnalyses :
           MapCall(first, second)

SpecFraud == Init /\ [][NextFraud]_vars

\* The handler step by step.  Its code runs without suspension, so each of
\* its steps is taken once it can be; requests.post ends by the timeout when
\* nothing else ends it.  Whether the AI service answers is left open.
NextLive ==
    \/ \E wallet_id \in Wallets, algorithm \in Algorithms, tx \in GateTxs :
           Receive(wallet_id, algorithm, tx)
    \/ Canonicalize
    \/ \E e \in EdgeEntropyDraws, t \in EdgeTimingDraws : GuardAndSign(e, t)
    \/ \E oracle \in OracleOutcomes : OracleReturn(oracle)
    \/ OracleTimeout
    \/ Respond

\* Threads that each make one call, interleaved statement by statement.
NextRace ==
    \E t \in Threads :
        \/ \E tx \in AnalyzeTxs, signature \in AnalyzeSignatures :
               ReplayTest(t, tx, signature)
        \/ ReplayAdd(t)
        \/ \E sender \in Wallets, is_pqc \in BOOLEAN :
               MainRead(t, sender, is_pqc)
        \/ MainWrite(t)
        \/ \E sender \in Wallets, is_pqc \in BOOLEAN :
               HistoryRead(t, sender, is_pqc)
        \/ HistoryWrite(t)

SpecRace == Init /\ [][NextRace]_vars

SpecLive ==
    /\ Init
    /\ [][NextLive]_vars
    /\ WF_vars(Canonicalize)
    /\ WF_vars(\E e \in EdgeEntropyDraws, t \in EdgeTimingDraws :
                   GuardAndSign(e, t))
    /\ WF_vars(OracleTimeout)
    /\ WF_vars(Respond)

\* ------------------------------------------------------------------ claims

\* C1 (as stated): once wallet_security_mode[sender] is True, every later
\* sign request of that sender with a classical algorithm is answered with
\* the SecurityDowngrade rejection and carries no signature.
C1_ClassicalAfterPQCRejected ==
    [][\A w \in Wallets :
          (/\ w \in DOMAIN wallet_security_mode
           /\ wallet_security_mode[w]
           /\ request'.wallet_id = w
           /\ Lower(request'.algorithm) # "pqc"
           /\ request'.amount > 0)
          => (/\ response'.kind = "SecurityDowngrade"
              /\ response'.signature = NoSignature)]_vars

\* C2: a request whose analysis has risk high is answered with the
\* RiskRejected error carrying that analysis and no signature; a response
\* that carries a signature has risk low or medium.
C2_HighRiskNeverSigned ==
    /\ response.analysis.risk = "high"
         => (response.kind = "RiskRejected" /\ response.signature = NoSignature)
    /\ response.signature # NoSignature
         => (response.kind = "Signed" /\ response.analysis.risk \in {"low", "medium"})

\* C2 witness: a pqc request, signed in the handler, rejected for high risk.
C2_Witness ==
    /\ response.kind = "RiskRejected"
    /\ response.analysis.risk = "high"
    /\ Lower(request.algorithm) = "pqc"
    /\ request.wallet_id \in pqc_wallets

\* C3: a detect_replay call returns True exactly when the same
\* (tx, signature) pair has been passed to it before, whatever other pairs
\* were passed in between.
C3_ReplayIdempotence ==
    [][replay_call'.called =>
          (replay_call'.ret
             = (<<replay_call'.tx, replay_call'.signature>> \in submitted))]_vars

\* C3 witness: a pair reported as a replay after another pair was submitted.
C3_Witness ==
    /\ replay_call.called
    /\ replay_call.ret
    /\ Cardinality(submitted) >= 2

\* C7: for a sender that has called with is_pqc = True, every call with
\* is_pqc = False returns True in both guards; a call with is_pqc = True
\* returns False in both guards, every time.
C7_DowngradeMonotonicity ==
    [][guard_call'.sender # 0 =>
          /\ (~guard_call'.is_pqc /\ guard_call'.sender \in used_pqc)
                => (guard_call'.main /\ guard_call'.module)
          /\ guard_call'.is_pqc
                => (~guard_call'.main /\ ~guard_call'.module)]_vars

\* C7 witness: a classical call of a sender with PQC history, reported as a
\* downgrade by both guards.
C7_Witness ==
    /\ guard_call.sender \in used_pqc
    /\ ~guard_call.is_pqc
    /\ guard_call.main
    /\ guard_call.module

\* C4 (as stated): whenever detect_replay reports a replay inside
\* analyze_transaction, the returned analysis has risk high and secure
\* false, whatever the entropy, timing and ZKP signals are.
C4_ReplayForcesHigh ==
    (call.op = "analyze_transaction" /\ call.replay)
        => (call.analysis.risk = "high" /\ ~call.analysis.secure)

Rank(risk) == IF risk = "high" THEN 2 ELSE IF risk = "medium" THEN 1 ELSE 0
Max4(a, b, c, d) ==
    LET m(x, y) == IF x > y THEN x ELSE y IN m(m(a, b), m(c, d))
\* The verdict of each signal of the latest analysis, taken on its own.
ReplayVerdict == IF call.replay THEN 2 ELSE 0
EntropyVerdict ==
    IF call.distinct * 100 < VERY_LOW_ENTROPY * HEX_SYMBOLS THEN 2
    ELSE IF call.distinct * 100 < LOW_ENTROPY * HEX_SYMBOLS THEN 1 ELSE 0
TimingVerdict ==
    IF call.timing > HIGH_TIMING THEN 2
    ELSE IF call.timing > MODERATE_TIMING THEN 1 ELSE 0
ZkpVerdict == IF call.zkp_ok THEN 0 ELSE 2

\* C5 (as stated): within one analyze_transaction run, once risk is high
\* after a stage it is high after every later stage, once secure is false it
\* stays false, and the final risk is the maximum of the four signal
\* verdicts.
C5_AggregationNeverRelaxes ==
    call.op = "analyze_transaction" =>
        /\ \A i \in 1..4 : \A j \in 1..4 :
              i < j =>
                /\ call.steps[i].risk = "high" => call.steps[j].risk = "high"
                /\ ~call.steps[i].secure => ~call.steps[j].secure
        /\ Rank(call.analysis.risk)
             = Max4(ReplayVerdict, EntropyVerdict, TimingVerdict, ZkpVerdict)

\* C6: every analysis returned by analyze_transaction or generate_analysis
\* with risk high has secure false.
C6_HighRiskIsInsecure ==
    call.op # "none" => (call.analysis.risk = "high" => ~call.analysis.secure)

\* C6 witness: an analysis that the timing signal alone drove to high.
C6_Witness ==
    /\ call.op = "analyze_transaction"
    /\ call.steps[2].risk # "high"
    /\ call.timing > HIGH_TIMING
    /\ call.analysis.risk = "high"
    /\ ~call.analysis.secure

\* C9 (as stated): the zkp of scenario 4, its flag under the key "enabled",
\* against a transaction with amount 100 fails with the amount_gt_zero
\* mismatch issue and the analysis has risk high.
C9_Scenario4_EnabledKey ==
    (/\ call.op = "analyze_transaction"
     /\ call.zkp = Scenario4Zkp("enabled")
     /\ call.tx.amount = 100)
        => (/\ ~call.zkp_ok
            /\ call.zkp_issue = AMOUNT_MISMATCH
            /\ call.analysis.risk = "high")

\* C9 (amended): the zkp of scenario 4 with its flag under the key "enable",
\* the key verify_zkp_attributes reads, against a transaction with amount
\* 100 fails with the amount_gt_zero mismatch issue and the analysis has
\* risk high.
C9_Scenario4_EnableKey ==
    (/\ call.op = "analyze_transaction"
     /\ call.zkp = Scenario4Zkp("enable")
     /\ call.tx.amount = 100)
        => (/\ ~call.zkp_ok
            /\ call.zkp_issue = AMOUNT_MISMATCH
            /\ call.analysis.risk = "high")

\* C9 witness: scenario 4 on a first submission with no other signal raised.
C9_Witness ==
    /\ call.op = "analyze_transaction"
    /\ call.zkp = Scenario4Zkp("enable")
    /\ call.tx.amount = 100
    /\ call.steps[3].risk = "low"
    /\ call.analysis.risk = "high"

\* C10: when verify_zkp_attributes fails, the analysis has risk high and
\* secure false and its last issue is the verifier's issue string, one of
\* the five failure messages, whatever replay, entropy and timing said.
C10_ZkpFailureForcesHigh ==
    (call.op = "analyze_transaction" /\ ~call.zkp_ok)
        => (/\ call.analysis.risk = "high"
            /\ ~call.analysis.secure
            /\ call.zkp_issue \in {MISSING_ATTRIBUTE, MISSING_PUBLIC_INPUT,
                                   AMOUNT_MISMATCH, NONCE_MISMATCH,
                                   RECIPIENT_MISMATCH}
            /\ Len(call.analysis.issues) > 0
            /\ call.analysis.issues[Len(call.analysis.issues)] = call.zkp_issue)

\* C10 witness: a recipient mismatch on an analysis the other signals had
\* left secure and below high.
C10_Witness ==
    /\ call.op = "analyze_transaction"
    /\ ~call.zkp_ok
    /\ call.zkp_issue = RECIPIENT_MISMATCH
    /\ call.steps[3].secure
    /\ call.steps[3].risk # "high"
    /\ call.analysis.risk = "high"

\* C11: the ZKP layer is opt-in.  For zkp = None and for a dict whose flag
\* is false or absent, whatever its attributes and public inputs hold,
\* verify_zkp_attributes returns (True, ""), and the ZKP stage of the
\* analysis leaves secure, risk and issues as the timing stage left them.
C11_ZkpOptIn ==
    (/\ call.op = "analyze_transaction"
     /\ (~call.zkp.present \/ call.zkp.enable # "True"))
    => (/\ verify_zkp_attributes(call.tx, call.zkp) = [ok |-> TRUE, issue |-> ""]
        /\ call.zkp_ok
        /\ call.zkp_issue = ""
        /\ call.steps[4] = call.steps[3]
        /\ call.analysis.risk = call.steps[3].risk
        /\ call.analysis.secure = call.steps[3].secure
        /\ call.analysis.issues = call.steps[3].issues)

\* A disabled dict with no attribute and public inputs that contradict the
\* transaction, analysed after the replay stage flagged the transaction.
C11_Witness ==
    /\ call.op = "analyze_transaction"
    /\ call.zkp.present
    /\ call.zkp.enable = "False"
    /\ call.zkp.attributes = {}
    /\ call.zkp.pi_keys = AttrNames
    /\ call.zkp.pi_amount_gt_zero # (call.tx.amount > 0)
    /\ call.replay
    /\ call.zkp_ok

\* Outcomes of the AI call that the claim counts as failures.
C12_FailureKinds ==
    {"timeout", "connection_error", "non200", "bad_body", "no_field",
     "null_score", "text_score"}

\* The response of a validated request when get_ai_risk returns score.
C12_OutcomeOfScore(score) ==
    LET a == generate_analysis(sign_call.tx, [kind |-> "ok", score |-> score],
                               sign_call.entropy_score,
                               sign_call.timing_leak_score)
    IN  /\ response.analysis = a
        /\ response.kind = IF a.risk = "high" THEN "RiskRejected" ELSE "Signed"
        /\ response.status_code = IF a.risk = "high" THEN 400 ELSE 201

\* C12 (as stated): whenever the AI call ends in a timeout, a connection
\* failure, a status other than 200, an unparsable body or a risk_score that
\* is not an integer, get_ai_risk returns 10 and the request ends Signed or
\* RiskRejected as the score 10 decides.
C12_FallbackOnNonInteger ==
    (/\ "RiskOracle" \in sign_call.invoked
     /\ sign_call.oracle.kind \in C12_FailureKinds \cup {"float_score"})
    => (sign_call.ai_risk = AI_FALLBACK /\ C12_OutcomeOfScore(AI_FALLBACK))

\* C12 (amended): the fallback 10 is used when the call raises, the status
\* is not 200, the body does not parse, risk_score is absent or int() cannot
\* convert it; a float risk_score is truncated by int() and used.
C12_FallbackOnFailure ==
    /\ (/\ "RiskOracle" \in sign_call.invoked
        /\ sign_call.oracle.kind \in C12_FailureKinds)
       => (sign_call.ai_risk = AI_FALLBACK /\ C12_OutcomeOfScore(AI_FALLBACK))
    /\ (/\ "RiskOracle" \in sign_call.invoked
        /\ sign_call.oracle.kind = "float_score")
       => (/\ sign_call.ai_risk * 100 <= sign_call.oracle.score
           /\ sign_call.oracle.score < (sign_call.ai_risk + 1) * 100
           /\ C12_OutcomeOfScore(sign_call.ai_risk))

\* A request signed on the fallback score after a timeout, where a score
\* above 70 would have been rejected.
C12_Witness ==
    /\ sign_call.oracle.kind = "timeout"
    /\ sign_call.ai_risk = AI_FALLBACK
    /\ response.kind = "Signed"
    /\ response.analysis.risk_score = AI_FALLBACK + 2 * PENALTY

\* C16: a sign request whose transaction has amount <= 0 or lacks a field
\* is answered with the validation error, carries no signature, leaves
\* wallet_security_mode, pqc_wallets and _seen as they were and invokes
\* neither the guard, the signer nor the AI service.
C16_MalformedMutatesNothing ==
    [][(/\ sign_call'.op = "sign"
        /\ (sign_call'.tx.amount <= 0 \/ sign_call'.tx.fields # TxFields))
       => (/\ response'.kind = "ValidationError"
           /\ response'.status_code = 422
           /\ response'.signature = NoSignature
           /\ sign_call'.invoked = {}
           /\ UNCHANGED <<wallet_security_mode, pqc_wallets, _seen>>)]_vars

\* A pqc request with amount 0 from a wallet without keys: the handler
\* would have recorded the mode and generated a key pair.
C16_Witness ==
    /\ sign_call.op = "sign"
    /\ sign_call.tx.amount = 0
    /\ sign_call.tx.fields = TxFields
    /\ Lower(sign_call.algorithm) = "pqc"
    /\ sign_call.wallet_id \notin pqc_wallets
    /\ response.kind = "ValidationError"

\* C19: a validated sign request of a wallet that has no entry in
\* wallet_security_mode is never answered with the downgrade rejection,
\* whichever algorithm it declares; when it declares pqc the guard is
\* asked, stores True for the wallet, and the handler goes on to sign.
C19_FirstRequestNeverDowngrade ==
    [][(/\ sign_call'.op = "sign"
        /\ sign_call'.tx.amount > 0
        /\ sign_call'.tx.fields = TxFields
        /\ sign_call'.wallet_id \notin DOMAIN wallet_security_mode)
       => (/\ response'.kind \in {"Signed", "RiskRejected"}
           /\ Lower(sign_call'.algorithm) = "pqc"
              => (/\ "detect_downgrade" \in sign_call'.invoked
                  /\ sign_call'.wallet_id \in DOMAIN wallet_security_mode'
                  /\ wallet_security_mode'[sign_call'.wallet_id]
                  /\ "Signer" \in sign_call'.invoked
                  /\ sign_call'.wallet_id \in pqc_wallets'))]_vars

\* The first request of a wallet, declaring pqc, answered with a signature
\* of that wallet's key.
C19_Witness ==
    /\ sign_call.op = "sign"
    /\ ~sign_call.had_mode
    /\ Lower(sign_call.algorithm) = "pqc"
    /\ sign_call.wallet_id \in DOMAIN wallet_security_mode
    /\ wallet_security_mode[sign_call.wallet_id]
    /\ response.kind = "Signed"
    /\ response.signature.signer = sign_call.wallet_id

\* The alert the mapping table gives for an analysis.
C18_TableAlert(analysis) ==
    IF analysis.risk = "high"
    THEN [raised |-> FALSE, fraud |-> TRUE, probability |-> 85,
          severity |-> "High", reason |-> join(", ", analysis.issues)]
    ELSE IF analysis.risk = "medium"
    THEN [raised |-> FALSE, fraud |-> TRUE, probability |-> 55,
          severity |-> "Medium",
          reason |-> <<"Suspicious entropy or timing pattern">>]
    ELSE [raised |-> FALSE, fraud |-> FALSE, probability |-> 10,
          severity |-> "Low", reason |-> <<"Transaction appears normal">>]

\* C18: on an analysis with risk, issues and metrics, map_to_fraud_alert
\* returns the row of the table for its risk (0.85 / High / the issues
\* joined by ", "; 0.55 / Medium / fixed text; 0.10 / Low / fixed text), and
\* two analyses with the same risk and issues get the same alert whatever
\* their metrics and secure are.
C18_FraudMapperTable ==
    alert_call.op = "map_to_fraud_alert"
    => LET a == alert_call.first[1]
           b == alert_call.second[1]
       IN  /\ a.keys = AnalyzerKeys => alert_call.alerts[1] = C18_TableAlert(a)
           /\ b.keys = AnalyzerKeys => alert_call.alerts[2] = C18_TableAlert(b)
           /\ (/\ a.keys = AnalyzerKeys /\ b.keys = AnalyzerKeys
               /\ a.risk = b.risk /\ a.issues = b.issues)
              => alert_call.alerts[1] = alert_call.alerts[2]

\* Two medium analyses with the same issues, one secure with a low timing
\* score and one insecure with a high one.
C18_Witness ==
    /\ alert_call.op = "map_to_fraud_alert"
    /\ alert_call.first[1].keys = AnalyzerKeys
    /\ alert_call.second[1].keys = AnalyzerKeys
    /\ alert_call.first[1].risk = "medium"
    /\ alert_call.second[1].risk = "medium"
    /\ alert_call.first[1].issues = alert_call.second[1].issues
    /\ alert_call.first[1].secure # alert_call.second[1].secure
    /\ alert_call.first[1].metrics.timing_leak_score
         # alert_call.second[1].metrics.timing_leak_score
    /\ alert_call.alerts[1] = alert_call.alerts[2]

\* The analysis dict of generate_analysis as map_to_fraud_alert would get it.
C17_AnalysisDict(analysis) ==
    [secure |-> analysis.secure, risk |-> analysis.risk, issues |-> <<>>,
     metrics |-> [entropy |-> 0, timing_leak_score |-> 0], keys |-> GateKeys]

\* C17 (as stated): the answer to every sign request that is not rejected
\* holds the signature, the analysis of that request and a fraud alert
\* equal to map_to_fraud_alert of that analysis.
C17_SignResultHasFraudAlert ==
    (sign_call.op = "sign" /\ response.kind = "Signed")
    => (/\ response.signature # NoSignature
        /\ response.analysis = generate_analysis(sign_call.tx, sign_call.oracle,
                                                 sign_call.entropy_score,
                                                 sign_call.timing_leak_score)
        /\ response.fraud_alert # NoAlert
        /\ response.fraud_alert
             = map_to_fraud_alert(C17_AnalysisDict(response.analysis)))

\* dict.get(key, False) on a dict of booleans.
C20_Get(d, key) == key \in DOMAIN d /\ d[key]

\* The entries of the other senders stay and no entry goes away.
C20_NothingDeleted(d, dNext, sender) ==
    /\ DOMAIN d \subseteq DOMAIN dNext
    /\ \A x \in DOMAIN d : x # sender => dNext[x] = d[x]

\* C20 (as stated): in either guard, after a call that returns False the
\* dict has an entry for the sender equal to is_pqc, also when the call is
\* the sender's first and classical; after a call that returns True the
\* dict is unchanged; no entry is ever deleted.
C20_RecordEqualsMode ==
    [][guard_call'.sender # 0 =>
          LET sender == guard_call'.sender
          IN  /\ ~guard_call'.main
                    => (/\ sender \in DOMAIN wallet_security_mode'
                        /\ wallet_security_mode'[sender] = guard_call'.is_pqc)
              /\ ~guard_call'.module
                    => (/\ sender \in DOMAIN PQC_HISTORY'
                        /\ PQC_HISTORY'[sender] = guard_call'.is_pqc)
              /\ guard_call'.main => UNCHANGED wallet_security_mode
              /\ guard_call'.module => UNCHANGED PQC_HISTORY
              /\ C20_NothingDeleted(wallet_security_mode,
                                    wallet_security_mode', sender)
              /\ C20_NothingDeleted(PQC_HISTORY, PQC_HISTORY', sender)]_vars

\* C20 (amended): after a call that returns False the mode of the sender,
\* read as the guard reads it, equals is_pqc: main.detect_downgrade has
\* stored is_pqc under the sender, downgrade.detect_downgrade has stored
\* True for a pqc call and has left the dict alone for a classical one, the
\* absent entry reading as False.  After a call that returns True the dict
\* is unchanged; no entry is ever deleted.
C20_RecordReadsAsMode ==
    [][guard_call'.sender # 0 =>
          LET sender == guard_call'.sender
          IN  /\ ~guard_call'.main
                    => (/\ sender \in DOMAIN wallet_security_mode'
                        /\ wallet_security_mode'[sender] = guard_call'.is_pqc)
              /\ ~guard_call'.module
                    => (/\ C20_Get(PQC_HISTORY', sender) = guard_call'.is_pqc
                        /\ guard_call'.is_pqc
                              => sender \in DOMAIN PQC_HISTORY'
                        /\ ~guard_call'.is_pqc => UNCHANGED PQC_HISTORY)
              /\ guard_call'.main => UNCHANGED wallet_security_mode
              /\ guard_call'.module => UNCHANGED PQC_HISTORY
              /\ C20_NothingDeleted(wallet_security_mode,
                                    wallet_security_mode', sender)
              /\ C20_NothingDeleted(PQC_HISTORY, PQC_HISTORY', sender)]_vars

\* A first, classical call: main.py holds False for the sender, downgrade.py
\* holds nothing for the sender, while it holds another sender's True.
C20_Witness ==
    /\ guard_call.sender # 0
    /\ ~guard_call.is_pqc
    /\ ~guard_call.main
    /\ ~guard_call.module
    /\ guard_call.sender \in DOMAIN wallet_security_mode
    /\ ~wallet_security_mode[guard_call.sender]
    /\ guard_call.sender \notin DOMAIN PQC_HISTORY
    /\ PQC_HISTORY # EmptyDict

\* The moves of a request between its states.
C13_Moves ==
    {<<"Idle", "Received">>, <<"Signed", "Received">>,
     <<"Rejected", "Received">>, <<"Received", "Canonicalized">>,
     <<"Canonicalized", "Checked">>, <<"Checked", "Signed">>,
     <<"Checked", "Rejected">>}

\* C13: every sign request that entered the handler reaches Signed or
\* Rejected, and it gets there through Received, Canonicalized and Checked in
\* this order; this holds in the runs in which the AI service never answers
\* as well, the call then ending by its timeout with the fallback score.
C13_RequestTerminates ==
    /\ [](pc = "Received" => <>(pc \in {"Signed", "Rejected"}))
    /\ [][pc' # pc => <<pc, pc'>> \in C13_Moves]_vars

\* A request signed on the fallback score after the AI call timed out.
C13_Witness ==
    /\ pc = "Signed"
    /\ inflight.oracle.kind = "timeout"
    /\ inflight.analysis.risk_score = AI_FALLBACK
    /\ response.kind = "Signed"
    /\ response.signature = inflight.signature

\* C14 (as stated): of the calls of detect_replay made at the same time with
\* the same (tx, signature) pair on a set that does not hold it, exactly one
\* returns False, in every interleaving.
C14_OneCallerSeesNoReplay ==
    \A tx \in AnalyzeTxs, signature \in AnalyzeSignatures :
        LET key == replay_key(tx, signature)
            D == {t \in Threads : /\ threads[t].op = "detect_replay"
                                  /\ threads[t].key = key}
        IN  (D # {} /\ \A t \in D : threads[t].pc = "done")
            => Cardinality({t \in D : ~threads[t].ret}) = 1

\* The orders in which the calls of D can run one after the other.
C15_Orders(D) ==
    {o \in [1..Cardinality(D) -> D] :
        \A i, j \in 1..Cardinality(D) : o[i] = o[j] => i = j}

\* The calls of order run one after the other on dict d: the dict they
\* leave and the set of (thread, verdict) pairs.
RECURSIVE C15_Serial(_, _, _)
C15_Serial(guard, order, d) ==
    IF order = <<>> THEN [d |-> d, rets |-> {}]
    ELSE LET t == Head(order)
             m == detect_downgrade(d, threads[t].sender, threads[t].is_pqc)
             h == history_detect_downgrade(d, threads[t].sender,
                                           threads[t].is_pqc)
             ret == IF guard = MAIN_GUARD THEN m.ret ELSE h.ret
             dNext == IF guard = MAIN_GUARD THEN m.mode ELSE h.history
             rest == C15_Serial(guard, Tail(order), dNext)
         IN  [d |-> rest.d, rets |-> rest.rets \cup {<<t, ret>>}]

\* C15 (as stated): for each guard and sender, once the calls made at the
\* same time have returned, their verdicts and the sender's entry are those
\* of the same calls run one after the other in some order; a classical
\* call that read after a pqc call of the sender had returned reported a
\* downgrade; no classical call stored False over a stored True.
C15_GuardCallsSerializable ==
    \A guard \in {MAIN_GUARD, HISTORY_GUARD}, sender \in Wallets :
        LET D == {t \in Threads : /\ threads[t].op = guard
                                  /\ threads[t].sender = sender}
            d == IF guard = MAIN_GUARD THEN wallet_security_mode
                 ELSE PQC_HISTORY
        IN  (\A t \in Threads : threads[t].pc # "read")
            => /\ \E order \in C15_Orders(D) :
                     LET serial == C15_Serial(guard, order, EmptyDict)
                     IN  /\ \A t \in D : <<t, threads[t].ret>> \in serial.rets
                         /\ (sender \in DOMAIN d) = (sender \in DOMAIN serial.d)
                         /\ sender \in DOMAIN d => d[sender] = serial.d[sender]
               /\ \A t \in D : (~threads[t].is_pqc /\ threads[t].after_pqc)
                                    => threads[t].ret
               /\ \A t \in D : ~threads[t].overwrote

\* C21: _seen only grows.  A detect_replay call that returns True leaves the
\* set as it was, a call that returns False adds the key of its pair, which
\* was not in the set, and nothing else; so the set after a call always
\* contains the set before it.
C21_ReplaySetOnlyGrows ==
    [][replay_call'.called =>
          LET key == replay_key(replay_call'.tx, replay_call'.signature)
          IN  /\ _seen \subseteq _seen'
              /\ replay_call'.ret => (key \in _seen /\ _seen' = _seen)
              /\ ~replay_call'.ret
                    => (/\ key \notin _seen
                        /\ _seen' = _seen \cup {key}
                        /\ Cardinality(_seen') = Cardinality(_seen) + 1)]_vars

\* A call that added a second key next to the one the set already held.
C21_Witness ==
    /\ replay_call.called
    /\ ~replay_call.ret
    /\ Cardinality(_seen) = 2
    /\ replay_key(replay_call.tx, replay_call.signature) \in _seen

\* The five checks of an enabled proof, in their order, as a sequence of
\* <<passed, issue>> pairs.
C22_Checks(tx, zkp) ==
    << <<"amount_gt_zero" \in zkp.attributes, MISSING_ATTRIBUTE>>,
       <<"amount_gt_zero" \in zkp.pi_keys, MISSING_PUBLIC_INPUT>>,
       <<zkp.pi_amount_gt_zero = (tx.amount > 0), AMOUNT_MISMATCH>>,
       <<"nonce" \in zkp.attributes
            => ("nonce" \in zkp.pi_keys /\ zkp.pi_nonce = tx.nonce),
         NONCE_MISMATCH>>,
       <<"recipient" \in zkp.attributes
            => ("recipient" \in zkp.pi_keys /\ zkp.pi_recipient = tx.to),
         RECIPIENT_MISMATCH>> >>

\* C22: for an enabled zkp dict, verify_zkp_attributes returns ok = True
\* exactly when amount_gt_zero is in attributes and in public_inputs, its
\* declared value equals (amount > 0), a declared nonce equals the nonce of
\* the transaction and a declared recipient equals its recipient; otherwise
\* ok = False with the issue of the first check that fails, in the order
\* missing attribute, missing public input, amount, nonce, recipient.
C22_VerifyExactly ==
    (/\ call.op = "analyze_transaction"
     /\ call.zkp.present
     /\ call.zkp.enable = "True")
    => LET checks == C22_Checks(call.tx, call.zkp)
           failed == {i \in 1..Len(checks) : ~checks[i][1]}
       IN  /\ call.zkp_ok = (failed = {})
           /\ call.zkp_ok => call.zkp_issue = ""
           /\ ~call.zkp_ok
                 => \E i \in failed :
                       /\ \A j \in failed : i <= j
                       /\ call.zkp_issue = checks[i][2]
                       /\ call.zkp_issue # ""

\* An enabled proof that declares a wrong nonce and a wrong recipient: the
\* issue names the nonce.
C22_Witness ==
    /\ call.op = "analyze_transaction"
    /\ call.zkp.enable = "True"
    /\ call.zkp.attributes = AttrNames
    /\ call.zkp.pi_keys = AttrNames
    /\ call.zkp.pi_amount_gt_zero = (call.tx.amount > 0)
    /\ call.zkp.pi_nonce # call.tx.nonce
    /\ call.zkp.pi_recipient # call.tx.to
    /\ ~call.zkp_ok
    /\ call.zkp_issue = NONCE_MISMATCH

\* C23: in analyze_transaction, a digest with at most 2 distinct hex symbols
\* (entropy < 0.15) adds the very low entropy issue and makes the analysis
\* high and insecure; one with 3 to 5 symbols (0.15 <= entropy < 0.35) adds
\* the low entropy issue, leaves secure as the replay stage left it (so the
\* analysis stays secure when no other signal blocks) and ends at least
\* medium; one with 6 or more symbols leaves the entropy stage without
\* effect.
C23_EntropyThresholds ==
    call.op = "analyze_transaction" =>
        LET before == call.steps[1]
            after  == call.steps[2]
        IN  /\ call.distinct <= 2 =>
                  /\ after.issues
                        = Append(before.issues, "Very low message entropy")
                  /\ after.risk = "high" /\ ~after.secure
                  /\ call.analysis.risk = "high" /\ ~call.analysis.secure
            /\ call.distinct \in 3..5 =>
                  /\ after.issues = Append(before.issues, "Low message entropy")
                  /\ after.secure = before.secure
                  /\ call.analysis.risk \in {"medium", "high"}
                  /\ (~call.replay /\ call.timing * 100 <= 85 * 1000
                          /\ call.zkp_ok) => call.analysis.secure
            /\ call.distinct >= 6 => after = before

\* A digest of 5 symbols on an otherwise clean analysis: medium and secure.
C23_Witness ==
    /\ call.op = "analyze_transaction"
    /\ call.distinct = 5
    /\ ~call.replay /\ call.zkp_ok /\ call.timing * 100 <= 45 * 1000
    /\ call.analysis.issues = <<"Low message entropy">>
    /\ call.analysis.risk = "medium"
    /\ call.analysis.secure

\* C24: the timing score never exceeds 1.0.  A score above 0.85 adds the
\* high timing issue and makes the analysis high and insecure; a score in
\* (0.45, 0.85] adds the moderate timing issue, raises risk to medium unless
\* it is already high and leaves secure alone; a score of at most 0.45
\* leaves the timing stage without effect.  Scores are in thousandths.
C24_TimingThresholds ==
    call.op = "analyze_transaction" =>
        LET before == call.steps[2]
            after  == call.steps[3]
        IN  /\ call.timing <= 1000
            /\ call.analysis.metrics.timing_leak_score = call.timing
            /\ call.timing > 850 =>
                  /\ after.issues
                        = Append(before.issues, "High timing side-channel risk")
                  /\ after.risk = "high" /\ ~after.secure
                  /\ call.analysis.risk = "high" /\ ~call.analysis.secure
            /\ (call.timing > 450 /\ call.timing <= 850) =>
                  /\ after.issues
                        = Append(before.issues,
                                 "Moderate timing side-channel risk")
                  /\ after.risk
                        = (IF before.risk = "high" THEN "high" ELSE "medium")
                  /\ after.secure = before.secure
            /\ call.timing <= 450 => after = before

\* A score of exactly 0.85 on an analysis that was low: moderate, not high.
C24_Witness ==
    /\ call.op = "analyze_transaction"
    /\ call.timing = 850
    /\ call.steps[2].risk = "low"
    /\ call.steps[3].risk = "medium"
    /\ call.steps[3].secure

C26_EntropyRange ==
    call.op = "analyze_transaction" =>
        LET reported == call.analysis.metrics.entropy
            exact16  == call.distinct * 1000
        IN  /\ reported >= 0 /\ reported <= 1000
            /\ 16 * reported - exact16 <= 8
            /\ exact16 - 16 * reported <= 8
            /\ call.distinct = 16 =>
                  /\ reported = 1000
                  /\ call.steps[2] = call.steps[1]
            /\ call.distinct = 1 =>
                  /\ reported = 62
                  /\ call.steps[2].issues
                        = Append(call.steps[1].issues, "Very low message entropy")
                  /\ call.steps[2].risk = "high"
                  /\ call.analysis.risk = "high"

\* A digest of one repeated character on an otherwise clean analysis.
C26_Witness ==
    /\ call.op = "analyze_transaction"
    /\ call.distinct = 1
    /\ ~call.replay /\ call.zkp_ok /\ call.timing <= 450
    /\ call.analysis.issues = <<"Very low message entropy">>
    /\ call.analysis.risk = "high"
    /\ call.analysis.metrics.entropy = 62

\* The senders a guard's dict records as PQC.
C27_RecordedPqc(d) == {s \in DOMAIN d : d[s]}

\* C27: on any sequence of (sender, is_pqc) calls handed to both guards,
\* detect_downgrade of main.py and detect_downgrade of downgrade.py return
\* the same verdict at every call, and after every call the senders recorded
\* as PQC in wallet_security_mode are those recorded in PQC_HISTORY.
C27_GuardsEquivalent ==
    /\ guard_call.main = guard_call.module
    /\ C27_RecordedPqc(wallet_security_mode) = C27_RecordedPqc(PQC_HISTORY)

\* Both guards report a downgrade while their dicts differ: main.py also
\* holds a classical sender's False.
C27_Witness ==
    /\ guard_call.sender # 0
    /\ ~guard_call.is_pqc
    /\ guard_call.main /\ guard_call.module
    /\ DOMAIN wallet_security_mode # DOMAIN PQC_HISTORY
    /\ C27_RecordedPqc(PQC_HISTORY) # {}

\* C28: when get_ai_risk returns the fallback 10 and the amount is at most
\* 5,000,000, the analysis has risk_score <= 30, risk low and secure true for
\* every entropy and timing draw, and the request is signed.
C28_OutageLetsSign ==
    (/\ sign_call.op = "sign"
     /\ "RiskOracle" \in sign_call.invoked
     /\ sign_call.ai_risk = 10
     /\ sign_call.tx.amount <= 5000000)
    => (/\ response.analysis.risk_score <= 30
        /\ response.analysis.risk = "low"
        /\ response.analysis.secure
        /\ response.kind = "Signed"
        /\ response.status_code = 201)

\* The oracle timed out and both draws carry their penalty: 30, signed.
C28_Witness ==
    /\ sign_call.op = "sign"
    /\ sign_call.oracle.kind = "timeout"
    /\ sign_call.ai_risk = 10
    /\ sign_call.entropy_score < 900
    /\ sign_call.timing_leak_score > 60
    /\ response.analysis.risk_score = 30
    /\ response.kind = "Signed"

\* C29: a validated sign request with amount above 5,000,000 is rejected
\* with risk high and risk_score 95, whatever the oracle answers and whatever
\* the algorithm; no request reports a risk_score above 95.
C29_LargeAmountRejected ==
    (sign_call.op = "sign" /\ "RiskOracle" \in sign_call.invoked)
    => (/\ response.analysis.risk_score <= 95
        /\ sign_call.tx.amount > 5000000
              => (/\ response.kind = "RiskRejected"
                  /\ response.analysis.risk = "high"
                  /\ response.analysis.risk_score = 95
                  /\ ~response.analysis.secure
                  /\ response.signature = NoSignature))

\* A pqc request of 5,000,001 that the oracle scored 10: rejected at 95.
C29_Witness ==
    /\ sign_call.op = "sign"
    /\ Lower(sign_call.algorithm) = "pqc"
    /\ sign_call.tx.amount > 5000000
    /\ sign_call.oracle = [kind |-> "ok", score |-> 10]
    /\ response.kind = "RiskRejected"
    /\ response.analysis.risk_score = 95

\* The guard state a pqc request leaves behind when it ends RiskRejected:
\* the sender's mode is True and the key pair is stored.
C30_GuardStateKept ==
    (Lower(request.algorithm) = "pqc" /\ response.kind = "RiskRejected")
    => (/\ request.wallet_id \in DOMAIN wallet_security_mode
        /\ wallet_security_mode[request.wallet_id]
        /\ request.wallet_id \in pqc_wallets)

\* An analysis that ends high leaves the fingerprint of its pair in _seen,
\* and an analysis of a pair whose fingerprint is in _seen reports a replay.
C30_FingerprintKept ==
    [][call'.op = "analyze_transaction" =>
          LET key == replay_key(call'.tx, call'.signature)
          IN  /\ key \in _seen'
              /\ key \in _seen => call'.replay]_vars

\* C30 (as stated): a pqc sign request that ends RiskRejected leaves the
\* sender's mode True and the key pair stored, and the next classical
\* request of that sender is answered with the SecurityDowngrade rejection.
C30_RejectedPqcStillGuards ==
    [][(Lower(request.algorithm) = "pqc" /\ response.kind = "RiskRejected")
          => /\ C30_GuardStateKept
             /\ (/\ request'.wallet_id = request.wallet_id
                  /\ Lower(request'.algorithm) # "pqc"
                  /\ request'.amount > 0)
                   => response'.kind = "SecurityDowngrade"]_vars

====
